---- MODULE Spec2Model ----
(***************************************************************************)
(* Batch card-generation pipeline of cards_trade_v2 (CardGenerator).       *)
(*                                                                         *)
(* The repository holds three revisions of the CardGenerator class:        *)
(*   revA  src/server/cardGenerator.ts lines 73-187                        *)
(*   revB  src/server/cardGenerator.ts lines 203-386                       *)
(*   revC  src/unnamed/part_001        lines 88-225                        *)
(* The variable rev selects the revision that is deployed; every action    *)
(* follows the code of that revision.                                      *)
(*                                                                         *)
(* Five specifications are defined: Spec, the pipeline; FairSpec, the      *)
(* pipeline under a fair event loop; NormSpec, the type normalizer applied *)
(* to type cells written in different ways; FieldSpec, the substitution of *)
(* a row's cells for the placeholders of a template; DownloadSpec, the     *)
(* download route of the upload handler.                                   *)
(*                                                                         *)
(* Strings (type cells, file names, paths) are sequences of one-character  *)
(* strings, so that trimming, case folding, suffix tests and name          *)
(* concatenation are computed as the code computes them.                   *)
(***************************************************************************)
EXTENDS Integers, Sequences, FiniteSets, TLC

VARIABLES
    rev,        \* deployed revision of CardGenerator
    templates,  \* type names that have a template file in TEMPLATES_DIR
    browser,    \* this.browser: "null" or "open"
    outputDir,  \* files of OUTPUT_DIR
    pc,         \* position of generateCards: idle, loop, page, exported, zipping
    rows,       \* rows read from the workbook by the current run
    list,       \* the list the row loop iterates (validRows, or rows in revB)
    idx,        \* index of the next element of the iterated list
    total,      \* local total of generateCards (NoTotal where not declared)
    processed,  \* local processed of generateCards
    events,     \* progress events emitted by the current run, in order
    pages,      \* rendering contexts opened by newPage() and not closed: the
                \* run that opened each, in opening order
    runs,       \* number of generateCards calls that passed the browser check
    outcome,    \* how the last call ended: none, returned, threw
    result,     \* value returned by the last call that returned
    now,        \* last reading of the wall clock, in seconds
    stream,     \* the zip output stream of the current run: none, open, closed
    load,       \* document load of the page of the current row: none, idle
                \* (the network goes idle), busy (it never does)
    probe       \* a pure function under application, with its argument and
                \* its value: normalizeType in NormSpec, the placeholder
                \* substitutions of a row in FieldSpec, the download
                \* handler in DownloadSpec

vars == <<rev, templates, browser, outputDir, pc, rows, list, idx,
          total, processed, events, pages, runs, outcome, result, now, stream,
          load, probe>>

----------------------------------------------------------------------------
(* Bounds of the model *)

MaxRows == 2
MaxRuns == 2
MaxClock == 1
MaxEdits == 2
MaxValorLen == 2
MaxSegments == 3

----------------------------------------------------------------------------
(* String helpers: JavaScript String methods on character sequences *)

UpperChars == <<"A","B","C","D","E","F","G","H","I","J","K","L","M","N","O",
                "P","Q","R","S","T","U","V","W","X","Y","Z","Ç","Ã">>
LowerChars == <<"a","b","c","d","e","f","g","h","i","j","k","l","m","n","o",
                "p","q","r","s","t","u","v","w","x","y","z","ç","ã">>

LowerOf(c) ==
    IF \E i \in 1..Len(UpperChars) : UpperChars[i] = c
    THEN LowerChars[CHOOSE i \in 1..Len(UpperChars) : UpperChars[i] = c]
    ELSE c

UpperOf(c) ==
    IF \E i \in 1..Len(LowerChars) : LowerChars[i] = c
    THEN UpperChars[CHOOSE i \in 1..Len(LowerChars) : LowerChars[i] = c]
    ELSE c

toLowerCase(s) == [i \in 1..Len(s) |-> LowerOf(s[i])]
toUpperCase(s) == [i \in 1..Len(s) |-> UpperOf(s[i])]

IsSpace(c) == c \in {" ", "\t", "\n"}

RECURSIVE trimStart(_)
trimStart(s) ==
    IF s # <<>> /\ IsSpace(Head(s)) THEN trimStart(Tail(s)) ELSE s

RECURSIVE trimEnd(_)
trimEnd(s) ==
    IF s # <<>> /\ IsSpace(s[Len(s)])
    THEN trimEnd(SubSeq(s, 1, Len(s) - 1))
    ELSE s

trim(s) == trimEnd(trimStart(s))

\* Canonical decomposition of one character (String.prototype.normalize("NFD"))
Decompose(c) ==
    CASE c = "ç" -> <<"c", "U+0327">>
      [] c = "Ç" -> <<"C", "U+0327">>
      [] c = "ã" -> <<"a", "U+0303">>
      [] c = "Ã" -> <<"A", "U+0303">>
      [] OTHER   -> <<c>>

RECURSIVE normalizeNFD(_)
normalizeNFD(s) ==
    IF s = <<>> THEN <<>> ELSE Decompose(Head(s)) \o normalizeNFD(Tail(s))

\* The combining marks (range U+0300..U+036F) that the decomposition yields
CombiningMarks == {"U+0327", "U+0303"}

\* .replace(/[\u0300-\u036f]/g, "")
stripMarks(s) == SelectSeq(s, LAMBDA c : c \notin CombiningMarks)

includes(s, sub) ==
    \E i \in 0..(Len(s) - Len(sub)) : SubSeq(s, i + 1, i + Len(sub)) = sub

endsWith(s, suf) ==
    /\ Len(s) >= Len(suf)
    /\ SubSeq(s, Len(s) - Len(suf) + 1, Len(s)) = suf

\* Number.prototype.toString for a natural number
RECURSIVE NumToStr(_)
NumToStr(n) ==
    IF n < 10 THEN <<ToString(n)>>
    ELSE NumToStr(n \div 10) \o <<ToString(n % 10)>>

----------------------------------------------------------------------------
(* Literals of the source *)

PROMO    == <<"p","r","o","m","o">>
CUPOM    == <<"c","u","p","o","m">>
QUEDA    == <<"q","u","e","d","a">>
BC       == <<"b","c">>
PROMOCAO == <<"p","r","o","m","o","c","a","o">>
CASHBACK == <<"c","a","s","h","b","a","c","k">>
EMPTY    == <<>>
DOT_PDF  == <<".","p","d","f">>
DOT_ZIP  == <<".","z","i","p">>
CARD_    == <<"c","a","r","d","_">>
CARDS_ZIP == <<"c","a","r","d","s",".","z","i","p">>
OK       == <<"O","K">>
USCORE   == <<"_">>

----------------------------------------------------------------------------
(* Inputs *)

Revisions == {"revA", "revB", "revC"}

\* contents of TEMPLATES_DIR: a deployment with the cupom and bc templates
\* (no promocao template), and a deployment with no template at all
TemplateSets == {{CUPOM, BC}, {}}

\* rows of a workbook (sheet_to_json with defval ""): the cells the pipeline
\* reads to classify a row and to name its document
RowInputs ==
    { [tipo |-> <<"C","U","P","O","M">>, ordem |-> EMPTY, categoria |-> EMPTY],
      [tipo |-> <<" ","c","u","p","o","m">>, ordem |-> <<"2">>,
       categoria |-> EMPTY],
      [tipo |-> <<"P","r","o","m","o","ç","ã","o">>, ordem |-> EMPTY,
       categoria |-> <<"A"," ","b">>],
      [tipo |-> <<"a","b","c">>, ordem |-> EMPTY, categoria |-> <<"A"," ","b">>],
      [tipo |-> <<"x","y","z">>, ordem |-> <<"1">>, categoria |-> EMPTY] }

RECURSIVE SeqsUpTo(_, _)
SeqsUpTo(S, n) ==
    IF n = 0 THEN {<<>>}
    ELSE LET shorter == SeqsUpTo(S, n - 1)
         IN shorter \cup {Append(w, x) : w \in {v \in shorter : Len(v) = n - 1},
                                         x \in S}

Workbooks == SeqsUpTo(RowInputs, MaxRows)

NoResult == <<>>

\* the normalizer has not been applied
NoProbe == [seed |-> EMPTY, tipo |-> EMPTY, edits |-> 0, out |-> EMPTY]

----------------------------------------------------------------------------
(* Type normalizer *)

\* variant of foldType that decomposes but keeps the combining marks
foldType_keepsMarks(tipo) == normalizeNFD(trim(toLowerCase(tipo)))

\* lower-case, trim, decompose, strip combining marks
foldType(tipo) == stripMarks(normalizeNFD(trim(toLowerCase(tipo))))

\* variant of normalizeType that tests the coupon keyword first
normalizeType_cupomFirst(tipo) ==
    IF tipo = EMPTY THEN EMPTY
    ELSE LET normalized == foldType(tipo) IN
         IF includes(normalized, CUPOM) THEN CUPOM
         ELSE IF includes(normalized, PROMO) THEN PROMOCAO
         ELSE IF includes(normalized, QUEDA) THEN QUEDA
         ELSE IF normalized = BC THEN BC
         ELSE EMPTY

\* module-level normalizeType of revA and revC
normalizeType(tipo) ==
    IF tipo = EMPTY THEN EMPTY
    ELSE LET normalized == foldType(tipo) IN
         IF includes(normalized, PROMO) THEN PROMOCAO
         ELSE IF includes(normalized, CUPOM) THEN CUPOM
         ELSE IF includes(normalized, QUEDA) THEN QUEDA
         ELSE IF normalized = BC THEN BC
         ELSE EMPTY

\* method CardGenerator.normalizeType of revB
CardGenerator_normalizeType(tipo) ==
    IF tipo = EMPTY THEN EMPTY
    ELSE LET normalized == foldType(tipo) IN
         IF includes(normalized, PROMO) THEN PROMOCAO
         ELSE IF includes(normalized, CUPOM) THEN CUPOM
         ELSE IF includes(normalized, QUEDA) THEN QUEDA
         ELSE IF includes(normalized, BC) THEN BC
         ELSE EMPTY

\* the normalizer a revision calls: the method in revB, the function otherwise
normalizeBy(r, tipo) ==
    IF r = "revB" THEN CardGenerator_normalizeType(tipo)
    ELSE normalizeType(tipo)

\* normalizeBy tabulated over the type cells of the inputs
TypeTable ==
    [r \in Revisions |->
        [t \in {row.tipo : row \in RowInputs} |-> normalizeBy(r, t)]]

\* normalized type of a row
TypeOf(r, row) == TypeTable[r][row.tipo]

\* fs.existsSync(path.join(TEMPLATES_DIR, `${tipo}.html`))
templateExists(tipo, tpl) == tipo \in tpl

\* the row passes the type check and the template check
Renderable(r, row, tpl) ==
    /\ TypeOf(r, row) # EMPTY
    /\ templateExists(TypeOf(r, row), tpl)

\* rows.filter(...) of revA and revC
validRows(r, rs, tpl) == SelectSeq(rs, LAMBDA row : Renderable(r, row, tpl))

\* the list the for-loop iterates: rows in revB, validRows in revA and revC
LoopList(r, rs, tpl) == IF r = "revB" THEN rs ELSE validRows(r, rs, tpl)

----------------------------------------------------------------------------
(* Output naming *)

\* .replace(/\s+/g, "_"): every maximal run of whitespace becomes one "_"
RECURSIVE collapseSpaces(_)
collapseSpaces(s) ==
    IF s = <<>> THEN <<>>
    ELSE IF IsSpace(Head(s))
         THEN USCORE \o collapseSpaces(trimStart(s))
         ELSE <<Head(s)>> \o collapseSpaces(Tail(s))

SlugChars == {"a","b","c","d","e","f","g","h","i","j","k","l","m","n","o",
              "p","q","r","s","t","u","v","w","x","y","z",
              "0","1","2","3","4","5","6","7","8","9","_"}

\* categoriaFinal of revB
categoriaFinal(categoria) ==
    IF trim(categoria) = EMPTY THEN EMPTY
    ELSE SelectSeq(collapseSpaces(stripMarks(normalizeNFD(
                       toLowerCase(trim(categoria))))),
                   LAMBDA c : c \in SlugChars)

\* ordemFinal of revB
ordemFinal(ordem, done) ==
    IF trim(ordem) # EMPTY THEN trim(ordem) ELSE NumToStr(done + 1)

\* upper of revC: String(v ?? "").toUpperCase().trim()
upper(v) == trim(toUpperCase(v))

\* name of the document written for a row when `done` rows were rendered before
pdfName(r, row, done) ==
    IF r = "revA" THEN CARD_ \o NumToStr(done + 1) \o DOT_PDF
    ELSE IF r = "revB" THEN
        LET tipo == TypeOf(r, row)
            cat  == categoriaFinal(row.categoria)
        IN IF cat # EMPTY
           THEN ordemFinal(row.ordem, done) \o USCORE \o tipo \o USCORE \o cat
                    \o DOT_PDF
           ELSE ordemFinal(row.ordem, done) \o USCORE \o tipo \o DOT_PDF
    ELSE
        LET tipo  == TypeOf(r, row)
            ordem == IF row.ordem # EMPTY THEN row.ordem
                     ELSE NumToStr(done + 1)
        IN ordem \o USCORE \o toUpperCase(tipo) \o USCORE
               \o upper(row.categoria) \o DOT_PDF

\* getTimestampFileName(): the wall clock, to the second, followed by ".zip"
getTimestampFileName(t) == NumToStr(t) \o DOT_ZIP

\* variant of percentageOf that rounds the ratio before scaling it:
\* Math.round(processed / total) * 100
percentageOf_roundsRatio(p, t) == ((2 * p + t) \div (2 * t)) * 100

\* Math.round((processed / total) * 100)
percentageOf(p, t) == (200 * p + t) \div (2 * t)

----------------------------------------------------------------------------
(* Files of the output directory *)

IsPdf(f) == endsWith(f.name, DOT_PDF)
IsZip(f) == endsWith(f.name, DOT_ZIP)

\* variant of WriteFile that leaves a file that already has the name alone
WriteFile_keepsFirst(dir, f) ==
    IF \E g \in dir : g.name = f.name THEN dir ELSE dir \cup {f}

\* a write to a path replaces the file of that name
WriteFile(dir, f) == {g \in dir : g.name # f.name} \cup {f}

PdfFile(name, run, row) ==
    [name |-> name, run |-> run, row |-> row, entries |-> {}]

\* entry of an archive: the base name of the document and its content
EntryOf(f) == [name |-> f.name, run |-> f.run, row |-> f.row]

ZipFile(name, run, dir) ==
    [name |-> name, run |-> run, row |-> 0,
     entries |-> {EntryOf(f) : f \in {g \in dir : IsPdf(g)}}]

\* the purge at the start of generateCards
purge(r, dir) ==
    IF r = "revA" THEN {}
    ELSE IF r = "revB" THEN {f \in dir : ~(IsPdf(f) \/ IsZip(f))}
    ELSE dir

NoTotal == 0 - 1

----------------------------------------------------------------------------
(* State after construction: browser = null, nothing generated yet *)

Init ==
    /\ rev \in Revisions
    /\ templates \in TemplateSets
    /\ browser = "null"
    /\ outputDir = {}
    /\ pc = "idle"
    /\ rows = <<>>
    /\ list = <<>>
    /\ idx = 1
    /\ total = NoTotal
    /\ processed = 0
    /\ events = <<>>
    /\ pages = <<>>
    /\ runs = 0
    /\ outcome = "none"
    /\ result = NoResult
    /\ now = 0
    /\ stream = "none"
    /\ load = "none"
    /\ probe = NoProbe

----------------------------------------------------------------------------
(* Operations *)

\* the row loop is at its end; its current element
AtEnd == idx > Len(list)
CurRow == list[idx]

\* initialize(): launch an engine and store it in this.browser; the caller
\* initializes a generator that holds no engine (beforeAll of the test suite)
Initialize ==
    /\ pc = "idle"
    /\ browser = "null"
    /\ browser' = "open"
    /\ UNCHANGED <<rev, templates, outputDir, pc, rows, list, idx, total,
                   processed, events, pages, runs, outcome, result, now,
                   stream, load, probe>>

\* revA and revB declare close(); the class of revC has no such method
hasClose(r) == r # "revC"

\* close(): close the engine held in this.browser, if any; closing the
\* engine closes every page still open on it
Close ==
    /\ hasClose(rev)
    /\ pc = "idle"
    /\ browser = "open"
    /\ browser' = "null"
    /\ pages' = <<>>
    /\ load' = "none"
    /\ UNCHANGED <<rev, templates, outputDir, pc, rows, list, idx, total,
                   processed, events, runs, outcome, result, now, stream,
                   probe>>

\* generateCards with this.browser == null: throws before anything else
GenerateNotInitialized ==
    /\ pc = "idle"
    /\ browser = "null"
    /\ outcome' = "threw"
    /\ result' = NoResult
    /\ UNCHANGED <<rev, templates, browser, outputDir, pc, rows, list, idx,
                   total, processed, events, pages, runs, now, stream, load,
                   probe>>

\* the total declared by generateCards
totalOf(r, rs, tpl) ==
    IF r = "revA" THEN NoTotal
    ELSE IF r = "revB" THEN Len(rs)
    ELSE Len(validRows(r, rs, tpl))

\* variant of StartRun that purges and reads before looking at this.browser
StartRun_uncheckedBrowser(wb) ==
    /\ pc = "idle"
    /\ runs < MaxRuns
    /\ runs' = runs + 1
    /\ outputDir' = purge(rev, outputDir)
    /\ rows' = wb
    /\ list' = LoopList(rev, wb, templates)
    /\ total' = totalOf(rev, wb, templates)
    /\ processed' = 0
    /\ idx' = 1
    /\ events' = <<>>
    /\ outcome' = "none"
    /\ result' = NoResult
    /\ stream' = "none"
    /\ load' = "none"
    /\ pc' = "loop"
    /\ UNCHANGED <<rev, templates, browser, pages, now, probe>>

\* generateCards up to the head of the row loop: purge, read the workbook,
\* filter, declare total and processed
StartRun(wb) ==
    /\ pc = "idle"
    /\ browser = "open"
    /\ runs < MaxRuns
    /\ runs' = runs + 1
    /\ outputDir' = purge(rev, outputDir)
    /\ rows' = wb
    /\ list' = LoopList(rev, wb, templates)
    /\ total' = totalOf(rev, wb, templates)
    /\ processed' = 0
    /\ idx' = 1
    /\ events' = <<>>
    /\ outcome' = "none"
    /\ result' = NoResult
    /\ stream' = "none"
    /\ load' = "none"
    /\ pc' = "loop"
    /\ UNCHANGED <<rev, templates, browser, pages, now, probe>>

\* variant of SkipRow that leaves the loop (`break`) at the first row with
\* no type or no template
SkipRow_break ==
    /\ pc = "loop"
    /\ ~AtEnd
    /\ ~Renderable(rev, CurRow, templates)
    /\ idx' = Len(list) + 1
    /\ UNCHANGED <<rev, templates, browser, outputDir, pc, rows, list, total,
                   processed, events, pages, runs, outcome, result, now,
                   stream, load, probe>>

\* revB: `continue` on a row with no type or no template
SkipRow ==
    /\ pc = "loop"
    /\ ~AtEnd
    /\ ~Renderable(rev, CurRow, templates)
    /\ idx' = idx + 1
    /\ UNCHANGED <<rev, templates, browser, outputDir, pc, rows, list, total,
                   processed, events, pages, runs, outcome, result, now,
                   stream, load, probe>>

\* what the network activity of a loaded document can do: cease, or go on
\* for ever (an asset that keeps a connection busy)
LoadFates == {"idle", "busy"}

\* substitute the template, write the tmp html, await browser.newPage(),
\* start page.goto(file://..., { waitUntil: "networkidle0" })
OpenPage ==
    /\ pc = "loop"
    /\ ~AtEnd
    /\ Renderable(rev, CurRow, templates)
    /\ pages' = Append(pages, runs)
    /\ load' \in LoadFates
    /\ pc' = "page"
    /\ UNCHANGED <<rev, templates, browser, outputDir, rows, list, idx, total,
                   processed, events, runs, outcome, result, now, stream,
                   probe>>

\* page.goto resolves once the network is idle; await page.pdf({ path:
\* pdfPath, ... })
ExportPdf ==
    /\ pc = "page"
    /\ load = "idle"
    /\ load' = "none"
    /\ outputDir' = WriteFile(outputDir,
                        PdfFile(pdfName(rev, CurRow, processed), runs, idx))
    /\ pc' = "exported"
    /\ UNCHANGED <<rev, templates, browser, rows, list, idx, total, processed,
                   events, pages, runs, outcome, result, now, stream, probe>>

\* variant of progressEvent that reports the rows rendered so far as the total
progressEvent_runningTotal(r, p, t) ==
    IF r = "revB"
    THEN [processed |-> p, total |-> p, percentage |-> percentageOf(p, t)]
    ELSE [total |-> p, processed |-> p, percentage |-> percentageOf(p, t),
          currentCard |-> NumToStr(p) \o <<"/">> \o NumToStr(t)]

\* the progress event emitted after processed++ (none in revA)
progressEvent(r, p, t) ==
    IF r = "revB"
    THEN [processed |-> p, total |-> t, percentage |-> percentageOf(p, t)]
    ELSE [total |-> t, processed |-> p, percentage |-> percentageOf(p, t),
          currentCard |-> NumToStr(p) \o <<"/">> \o NumToStr(t)]

\* variant of emit that publishes the count as it was before processed++
emit_beforeIncrement(r, evs, p, t) ==
    IF r = "revA" THEN evs ELSE Append(evs, progressEvent(r, p - 1, t))

\* this.emit("progress", ...) with p rows rendered (revA emits nothing)
emit(r, evs, p, t) ==
    IF r = "revA" THEN evs ELSE Append(evs, progressEvent(r, p, t))

\* variant of ClosePage that counts and reports the row but leaves its page
\* open
ClosePage_leavesPageOpen ==
    /\ pc = "exported"
    /\ pages' = pages
    /\ processed' = processed + 1
    /\ events' = emit(rev, events, processed + 1, total)
    /\ idx' = idx + 1
    /\ pc' = "loop"
    /\ UNCHANGED <<rev, templates, browser, outputDir, rows, list, total,
                   runs, outcome, result, now, stream, load, probe>>

\* await page.close(); processed++; this.emit("progress", ...)
ClosePage ==
    /\ pc = "exported"
    /\ pages' = SubSeq(pages, 1, Len(pages) - 1)
    /\ processed' = processed + 1
    /\ events' = emit(rev, events, processed + 1, total)
    /\ idx' = idx + 1
    /\ pc' = "loop"
    /\ UNCHANGED <<rev, templates, browser, outputDir, rows, list, total,
                   runs, outcome, result, now, stream, load, probe>>

\* this.emit("progress", ...) calls each listener synchronously, and an
\* exception thrown by a listener leaves emit and then generateCards: the page
\* is closed, the row is counted and the event was handed to the listener, but
\* the loop does not go on
ListenerThrows ==
    /\ rev # "revA"
    /\ pc = "exported"
    /\ pages' = SubSeq(pages, 1, Len(pages) - 1)
    /\ processed' = processed + 1
    /\ events' = emit(rev, events, processed + 1, total)
    /\ pc' = "idle"
    /\ outcome' = "threw"
    /\ result' = NoResult
    /\ UNCHANGED <<rev, templates, browser, outputDir, rows, list, idx, total,
                   runs, now, stream, load, probe>>

\* variant of gotoTimesOut for a navigation timeout that is switched off
gotoTimesOut_never(ld) == FALSE

\* page.goto is called with waitUntil only: no timeout option is passed and
\* the default navigation timeout is never changed, so the wait for network
\* idle is abandoned after the default delay of the library and goto rejects
gotoTimesOut(ld) == ld = "busy"

\* newPage, goto or pdf rejects: the exception leaves generateCards, and the
\* page, if one was opened, stays as it is
RenderThrows ==
    /\ \/ pc = "page" /\ (load = "idle" \/ gotoTimesOut(load))
       \/ pc = "loop" /\ ~AtEnd /\ Renderable(rev, CurRow, templates)
    /\ pc' = "idle"
    /\ outcome' = "threw"
    /\ result' = NoResult
    /\ UNCHANGED <<rev, templates, browser, outputDir, rows, list, idx, total,
                   processed, events, pages, runs, now, stream, load, probe>>

\* revA after the loop: return "OK"
ReturnOK ==
    /\ rev = "revA"
    /\ pc = "loop"
    /\ AtEnd
    /\ pc' = "idle"
    /\ outcome' = "returned"
    /\ result' = OK
    /\ UNCHANGED <<rev, templates, browser, outputDir, rows, list, idx, total,
                   processed, events, pages, runs, now, stream, load, probe>>

\* name of the archive: "cards.zip" in revB, timestamp-derived in revC
zipNameOf(r, t) == IF r = "revB" THEN CARDS_ZIP ELSE getTimestampFileName(t)

\* new Date() in getTimestampFileName: the clock never runs backwards, and
\* revB does not read it
clockReads(r, last) == IF r = "revB" THEN {last} ELSE last..MaxClock

\* variant of CreateZip placed inside the row loop rather than after it
CreateZip_insideLoop ==
    /\ rev # "revA"
    /\ pc = "loop"
    /\ \E t \in clockReads(rev, now) :
        /\ now' = t
        /\ outputDir' = WriteFile(outputDir,
                            ZipFile(zipNameOf(rev, t), runs, outputDir))
        /\ result' = zipNameOf(rev, t)
    /\ stream' = "open"
    /\ pc' = "zipping"
    /\ UNCHANGED <<rev, templates, browser, rows, list, idx, total, processed,
                   events, pages, runs, outcome, load, probe>>

\* after the loop: open the output stream of the archive and queue every
\* .pdf of the output directory (revB inline, revC in createZip)
CreateZip ==
    /\ rev # "revA"
    /\ pc = "loop"
    /\ AtEnd
    /\ \E t \in clockReads(rev, now) :
        /\ now' = t
        /\ outputDir' = WriteFile(outputDir,
                            ZipFile(zipNameOf(rev, t), runs, outputDir))
        /\ result' = zipNameOf(rev, t)
    /\ stream' = "open"
    /\ pc' = "zipping"
    /\ UNCHANGED <<rev, templates, browser, rows, list, idx, total, processed,
                   events, pages, runs, outcome, load, probe>>

\* the output stream of the archive emits "close"
StreamClose ==
    /\ stream = "open"
    /\ stream' = "closed"
    /\ UNCHANGED <<rev, templates, browser, outputDir, pc, rows, list, idx,
                   total, processed, events, pages, runs, outcome, result,
                   now, load, probe>>

\* revB returns once archive.finalize() resolves; revC once createZip
\* resolves, which is on the "close" of the output stream
mayReturn(r, st) == IF r = "revB" THEN TRUE ELSE st = "closed"

ReturnZip ==
    /\ pc = "zipping"
    /\ mayReturn(rev, stream)
    /\ pc' = "idle"
    /\ outcome' = "returned"
    /\ UNCHANGED <<rev, templates, browser, outputDir, rows, list, idx, total,
                   processed, events, pages, runs, result, now, stream, load,
                   probe>>

Next ==
    \/ Initialize
    \/ Close
    \/ GenerateNotInitialized
    \/ \E wb \in Workbooks : StartRun(wb)
    \/ SkipRow
    \/ OpenPage
    \/ ExportPdf
    \/ ClosePage
    \/ ListenerThrows
    \/ RenderThrows
    \/ ReturnOK
    \/ CreateZip
    \/ StreamClose
    \/ ReturnZip

Spec == Init /\ [][Next]_vars

\* the steps generateCards takes by itself once it was called: the event
\* loop resumes the method whenever the promise it awaits has settled
RunStep ==
    \/ SkipRow
    \/ OpenPage
    \/ ExportPdf
    \/ ClosePage
    \/ ListenerThrows
    \/ RenderThrows
    \/ ReturnOK
    \/ CreateZip
    \/ StreamClose
    \/ ReturnZip

\* the pipeline under a fair event loop: a run that can take a step
\* eventually takes one
FairSpec == Spec /\ WF_vars(RunStep)

----------------------------------------------------------------------------
(* The type normalizer on its own: normalizeType applied to type cells that *)
(* are written in different ways                                            *)

\* type cells as a sheet may hold them: one keyword, two keywords in either
\* order, the short code, the cashback type the client advertises, and cells
\* no rule matches
TypeSeeds ==
    { PROMOCAO, CUPOM, QUEDA, BC, CASHBACK,
      <<"c","u","p","o","m"," ","p","r","o","m","o">>,
      <<"p","r","o","m","o"," ","q","u","e","d","a">>,
      <<"q","u","e","d","a"," ","c","u","p","o","m">>,
      <<"a","b","c">>,
      <<"x","y","z">> }

\* the other case of a letter
SwapCase(c) == IF LowerOf(c) # c THEN LowerOf(c) ELSE UpperOf(c)

\* the letter with its diacritic added (precomposed), or taken away
SwapDiacritic(c) ==
    CASE c = "c" -> "ç"
      [] c = "C" -> "Ç"
      [] c = "a" -> "ã"
      [] c = "A" -> "Ã"
      [] c = "ç" -> "c"
      [] c = "Ç" -> "C"
      [] c = "ã" -> "a"
      [] c = "Ã" -> "A"
      [] OTHER   -> c

\* normalizeType(tipo) of the deployed revision, recorded with its argument
Normalized(seed, tipo, edits) ==
    [seed |-> seed, tipo |-> tipo, edits |-> edits,
     out |-> normalizeBy(rev, tipo)]

pipelineVars == <<templates, browser, outputDir, pc, rows, list, idx, total,
                  processed, events, pages, runs, outcome, result, now, stream,
                  load>>

NormInit ==
    /\ rev \in Revisions
    /\ templates = {}
    /\ browser = "null"
    /\ outputDir = {}
    /\ pc = "idle"
    /\ rows = <<>>
    /\ list = <<>>
    /\ idx = 1
    /\ total = NoTotal
    /\ processed = 0
    /\ events = <<>>
    /\ pages = <<>>
    /\ runs = 0
    /\ outcome = "none"
    /\ result = NoResult
    /\ now = 0
    /\ stream = "none"
    /\ load = "none"
    /\ \E s \in TypeSeeds : probe = Normalized(s, s, 0)

\* the cell is written with the case of one letter, or of all letters, changed
ChangeCase ==
    /\ probe.edits < MaxEdits
    /\ \E i \in 0..Len(probe.tipo) :
          LET t == IF i = 0 THEN toUpperCase(probe.tipo)
                   ELSE [probe.tipo EXCEPT ![i] = SwapCase(@)]
          IN /\ t # probe.tipo
             /\ probe' = Normalized(probe.seed, t, probe.edits + 1)
    /\ UNCHANGED <<rev, pipelineVars>>

\* the cell is written with a diacritic added to or removed from one letter:
\* a precomposed letter, or a combining mark typed after the letter
ChangeDiacritic ==
    /\ probe.edits < MaxEdits
    /\ \E i \in 1..Len(probe.tipo) :
        \E t \in { [probe.tipo EXCEPT ![i] = SwapDiacritic(@)] }
                 \cup { SubSeq(probe.tipo, 1, i) \o <<m>>
                           \o SubSeq(probe.tipo, i + 1, Len(probe.tipo))
                        : m \in CombiningMarks } :
             /\ t # probe.tipo
             /\ ~IsSpace(probe.tipo[i])
             /\ probe' = Normalized(probe.seed, t, probe.edits + 1)
    /\ UNCHANGED <<rev, pipelineVars>>

\* the cell is written with one more blank before or after its text
PadWhitespace ==
    /\ probe.edits < MaxEdits
    /\ \E t \in { <<" ">> \o probe.tipo, probe.tipo \o <<" ">>,
                  probe.tipo \o <<"\t">> } :
          probe' = Normalized(probe.seed, t, probe.edits + 1)
    /\ UNCHANGED <<rev, pipelineVars>>

NormNext ==
    \/ ChangeCase
    \/ ChangeDiacritic
    \/ PadWhitespace

NormSpec == NormInit /\ [][NormNext]_vars

----------------------------------------------------------------------------
(* Placeholder substitution on its own: the values a row's logo, valor and *)
(* selo cells put in the template                                         *)

\* files of LOGOS_DIR and of SELOS_DIR in a deployment: the default logo, one
\* uploaded logo, and the two seal images
BLANK_PNG    == <<"b","l","a","n","k",".","p","n","g">>
A_PNG        == <<"a",".","p","n","g">>
B_PNG        == <<"b",".","p","n","g">>
ACAONOVA     == <<"a","c","a","o","n","o","v","a",".","p","n","g">>
ACAORENOVADA == <<"a","c","a","o","r","e","n","o","v","a","d","a",".","p","n","g">>
NOVA         == <<"n","o","v","a">>
RENOVADA     == <<"r","e","n","o","v","a","d","a">>
PERCENT      == "%"

LogoStore == {BLANK_PNG, A_PNG}
SeloStore == {ACAONOVA, ACAORENOVADA}

\* fs.readFileSync of a directory throws EISDIR
EISDIR == <<"EISDIR">>

\* path.extname(p).replace(".", ""): the text after the last dot of the base
\* name, none when there is no dot or the name starts with its only dot
extname(name) ==
    LET dots == {i \in 1..Len(name) : name[i] = "."}
    IN IF dots = {} THEN <<>>
       ELSE LET last == CHOOSE i \in dots : \A k \in dots : k <= i
            IN IF last = 1 THEN <<>> ELSE SubSeq(name, last + 1, Len(name))

\* imageToBase64(path.join(dir, name)): "" when nothing exists at the path,
\* the data URL of the file otherwise; path.join(dir, "") is the directory
\* itself, which exists and cannot be read as a file
imageToBase64(store, name) ==
    IF name = EMPTY THEN EISDIR
    ELSE IF name \notin store THEN EMPTY
    ELSE <<"d","a","t","a",":","i","m","a","g","e","/">> \o extname(name)
             \o <<";","b","a","s","e","6","4",",">> \o name

\* the value substituted for {{LOGO}}
logoBase64(r, logo) ==
    IF r = "revA" THEN
        IF logo # EMPTY THEN imageToBase64(LogoStore, logo) ELSE EMPTY
    ELSE IF r = "revB" THEN
        imageToBase64(LogoStore,
                      IF logo # EMPTY /\ trim(logo) # EMPTY THEN trim(logo)
                      ELSE BLANK_PNG)
    ELSE imageToBase64(LogoStore, IF logo # EMPTY THEN logo ELSE BLANK_PNG)

\* the value substituted for {{SELO}}
seloBase64(r, selo) ==
    IF r = "revA" THEN
        IF selo = EMPTY THEN EMPTY
        ELSE LET s == trim(toLowerCase(selo))
                 seloFile == IF s = NOVA THEN ACAONOVA
                             ELSE IF s = RENOVADA THEN ACAORENOVADA
                             ELSE EMPTY
             IN IF seloFile # EMPTY THEN imageToBase64(SeloStore, seloFile)
                ELSE EMPTY
    ELSE IF r = "revB" THEN
        IF selo = EMPTY THEN EMPTY
        ELSE imageToBase64(SeloStore,
                           IF toLowerCase(selo) = NOVA THEN ACAONOVA
                           ELSE IF toLowerCase(selo) = RENOVADA
                                THEN ACAORENOVADA
                                ELSE EMPTY)
    ELSE LET seloUpper == upper(selo)
         IN IF seloUpper = toUpperCase(NOVA)
            THEN imageToBase64(SeloStore, ACAONOVA)
            ELSE IF seloUpper = toUpperCase(RENOVADA)
                 THEN imageToBase64(SeloStore, ACAORENOVADA)
                 ELSE EMPTY

Digits == <<"0","1","2","3","4","5","6","7","8","9">>
IsDigit(c) == \E i \in 1..10 : Digits[i] = c
DigitVal(c) == (CHOOSE i \in 1..10 : Digits[i] = c) - 1

RECURSIVE DigitsVal(_)
DigitsVal(s) ==
    IF s = <<>> THEN 0
    ELSE 10 * DigitsVal(SubSeq(s, 1, Len(s) - 1)) + DigitVal(s[Len(s)])

NaN == 0 - 1

\* Number(v) of a string, in hundredths: blanks around the text are ignored,
\* the empty text is 0, an unsigned decimal literal of at most two decimals
\* is its value, anything else is NaN
NumberOf(v) ==
    LET t    == trim(v)
        dots == {i \in 1..Len(t) : t[i] = "."}
    IN IF t = <<>> THEN 0
       ELSE IF \E i \in 1..Len(t) : ~(IsDigit(t[i]) \/ t[i] = ".") THEN NaN
       ELSE IF Cardinality(dots) > 1 \/ Len(t) = Cardinality(dots) THEN NaN
       ELSE IF dots = {} THEN 100 * DigitsVal(t)
       ELSE LET d    == CHOOSE i \in dots : TRUE
                int  == SubSeq(t, 1, d - 1)
                frac == SubSeq(t, d + 1, Len(t))
            IN IF Len(frac) > 2 THEN NaN
               ELSE 100 * DigitsVal(int)
                      + (IF Len(frac) = 1 THEN 10 * DigitsVal(frac)
                         ELSE DigitsVal(frac))

\* String(n) of a number held in hundredths, which is also
\* String(Number(n.toFixed(2)))
HundredthsToStr(h) ==
    IF h % 100 = 0 THEN NumToStr(h \div 100)
    ELSE NumToStr(h \div 100) \o <<".">>
            \o (IF h % 10 = 0 THEN NumToStr((h % 100) \div 10)
                ELSE <<ToString((h % 100) \div 10), ToString(h % 10)>>)

\* String.prototype.replace("%", ""): the first occurrence only
RECURSIVE replaceFirst(_, _)
replaceFirst(s, c) ==
    IF s = <<>> THEN <<>>
    ELSE IF Head(s) = c THEN Tail(s)
    ELSE <<Head(s)>> \o replaceFirst(Tail(s), c)

\* .replace(/%/g, ""): every occurrence
replaceAll(s, c) == SelectSeq(s, LAMBDA x : x # c)

\* formatPercentage of revC
formatPercentage(valor) ==
    IF valor = EMPTY THEN EMPTY
    ELSE LET num == NumberOf(valor)
         IN IF num # NaN
            THEN HundredthsToStr(IF num > 0 /\ num < 100 THEN num * 100
                                 ELSE num)
            ELSE trim(replaceFirst(valor, PERCENT))

\* the value substituted for {{VALOR}}
valorFinal(r, tipo, valor) ==
    IF r = "revC"
    THEN IF tipo = PROMOCAO THEN upper(valor) ELSE formatPercentage(valor)
    ELSE IF tipo = PROMOCAO THEN valor ELSE replaceAll(valor, PERCENT)

\* cells of a row that reach the template: valor cells over a small alphabet,
\* logo cells (none, blank, an uploaded file, a file that is not there), selo
\* cells (none, the two seals in several spellings, another word)
ValorChars == {"5", "0", ".", "%", " ", "a"}
LogoInputs == {EMPTY, <<" ">>, A_PNG, B_PNG}
SeloInputs == {EMPTY, NOVA, toUpperCase(NOVA),
               <<"R","e","n","o","v","a","d","a">>,
               <<"o","u","t","r","a">>}

FieldRows ==
    { [tipo |-> t, valor |-> v, logo |-> EMPTY, selo |-> EMPTY] :
          t \in {PROMOCAO, CUPOM}, v \in SeqsUpTo(ValorChars, MaxValorLen) }
    \cup { [tipo |-> CUPOM, valor |-> EMPTY, logo |-> l, selo |-> s] :
          l \in LogoInputs, s \in SeloInputs }

\* no placeholder has been substituted yet
Unset == <<"unset">>

FieldInit ==
    /\ rev \in Revisions
    /\ templates = {}
    /\ browser = "null"
    /\ outputDir = {}
    /\ pc = "idle"
    /\ rows = <<>>
    /\ list = <<>>
    /\ idx = 1
    /\ total = NoTotal
    /\ processed = 0
    /\ events = <<>>
    /\ pages = <<>>
    /\ runs = 0
    /\ outcome = "none"
    /\ result = NoResult
    /\ now = 0
    /\ stream = "none"
    /\ load = "none"
    /\ \E row \in FieldRows :
          probe = [row |-> row, VALOR |-> Unset, LOGO |-> Unset, SELO |-> Unset]

\* the substitution block of one loop iteration: valorFinal, logoBase64 and
\* seloBase64 are computed for the row
Substitute ==
    /\ probe.VALOR = Unset
    /\ probe' = [row   |-> probe.row,
                 VALOR |-> valorFinal(rev, probe.row.tipo, probe.row.valor),
                 LOGO  |-> logoBase64(rev, probe.row.logo),
                 SELO  |-> seloBase64(rev, probe.row.selo)]
    /\ UNCHANGED <<rev, pipelineVars>>

FieldNext == Substitute

FieldSpec == FieldInit /\ [][FieldNext]_vars

----------------------------------------------------------------------------
(* The download route on its own: GET /api/download?zipPath=...           *)

\* path segments a request can be made of: the output directory, a sibling
\* directory whose name begins with that of the output directory, the
\* parent step, a file name, another directory
SEG_OUTPUT  == <<"o","u","t","p","u","t">>
SEG_SIBLING == <<"o","u","t","p","u","t","_","o","l","d">>
SEG_UP      == <<".", ".">>
SEG_FILE    == <<"a",".","z","i","p">>
SEG_OTHER   == <<"e","t","c">>
Segments    == {SEG_OUTPUT, SEG_SIBLING, SEG_UP, SEG_FILE, SEG_OTHER}

\* the working directory of the server process, as segments
Cwd == << <<"a","p","p">> >>

\* path.resolve: relative paths start at the working directory, each ".."
\* drops the last segment (none is dropped at the root)
RECURSIVE resolveFrom(_, _)
resolveFrom(stack, segs) ==
    IF segs = <<>> THEN stack
    ELSE IF Head(segs) = SEG_UP
         THEN resolveFrom(IF stack = <<>> THEN <<>>
                          ELSE SubSeq(stack, 1, Len(stack) - 1), Tail(segs))
         ELSE resolveFrom(Append(stack, Head(segs)), Tail(segs))

resolve(absolute, segs) ==
    resolveFrom(IF absolute THEN <<>> ELSE Cwd, segs)

\* the text of a resolved path
RECURSIVE pathText(_)
pathText(segs) ==
    IF segs = <<>> THEN <<>>
    ELSE <<"/">> \o Head(segs) \o pathText(Tail(segs))

\* String.prototype.startsWith
startsWith(s, pre) ==
    /\ Len(s) >= Len(pre)
    /\ SubSeq(s, 1, Len(pre)) = pre

\* path.resolve("output")
outputDirPath == resolve(FALSE, <<SEG_OUTPUT>>)

\* what is on disk: an archive in the output directory, a file of the same
\* name in the sibling directory, and a file outside both
DiskFiles == { Cwd \o <<SEG_OUTPUT, SEG_FILE>>,
               Cwd \o <<SEG_SIBLING, SEG_FILE>>,
               Cwd \o <<SEG_OTHER, SEG_FILE>> }
DiskDirs ==
    UNION { {SubSeq(f, 1, n) : n \in 0..(Len(f) - 1)} : f \in DiskFiles }

\* fs.existsSync
existsSync(p) == p \in DiskFiles \cup DiskDirs

\* the query of a request: no zipPath, a zipPath that is not a string (sent
\* twice, it is an array), or a string
Queries ==
    { [kind |-> "missing", absolute |-> FALSE, segs |-> <<>>],
      [kind |-> "array", absolute |-> FALSE, segs |-> <<>>] }
    \cup { [kind |-> "string", absolute |-> a, segs |-> s] :
              a \in BOOLEAN, s \in SeqsUpTo(Segments, MaxSegments) }

\* the handler of GET /api/download
downloadResponse(q) ==
    IF q.kind # "string" \/ (~q.absolute /\ q.segs = <<>>)
    THEN [status |-> 400, sent |-> <<>>]
    ELSE LET resolvedPath == resolve(q.absolute, q.segs) IN
         IF ~startsWith(pathText(resolvedPath), pathText(outputDirPath))
         THEN [status |-> 403, sent |-> <<>>]
         ELSE IF ~existsSync(resolvedPath)
         THEN [status |-> 404, sent |-> <<>>]
         ELSE IF resolvedPath \in DiskFiles
         THEN [status |-> 200, sent |-> resolvedPath]
         ELSE [status |-> 500, sent |-> <<>>]

NoResponse == [status |-> 0, sent |-> <<>>]

DownloadInit ==
    /\ rev \in Revisions
    /\ templates = {}
    /\ browser = "null"
    /\ outputDir = {}
    /\ pc = "idle"
    /\ rows = <<>>
    /\ list = <<>>
    /\ idx = 1
    /\ total = NoTotal
    /\ processed = 0
    /\ events = <<>>
    /\ pages = <<>>
    /\ runs = 0
    /\ outcome = "none"
    /\ result = NoResult
    /\ now = 0
    /\ stream = "none"
    /\ load = "none"
    /\ \E q \in Queries : probe = [query |-> q, response |-> NoResponse]

\* the server answers the request
Download ==
    /\ probe.response = NoResponse
    /\ probe' = [query |-> probe.query,
                 response |-> downloadResponse(probe.query)]
    /\ UNCHANGED <<rev, pipelineVars>>

DownloadNext == Download

DownloadSpec == DownloadInit /\ [][DownloadNext]_vars

----------------------------------------------------------------------------
(* Progress accounting *)

\* a run is in progress or has ended and its locals are still observable
RunStarted == runs > 0
Returned == pc = "idle" /\ outcome = "returned"

LastEvent == events[Len(events)]

\* rows of the workbook that pass the type check and the template check
RenderableCount ==
    Cardinality({i \in 1..Len(rows) : Renderable(rev, rows[i], templates)})

\* C1: in every state of a run and in every progress event it emits,
\* 0 <= processed <= total, and every event of the run carries the same total
\* (the one declared before the first row is rendered).
C1_ProcessedWithinTotal ==
    /\ total # NoTotal => (0 <= processed /\ processed <= total)
    /\ \A i \in 1..Len(events) :
          /\ 0 <= events[i].processed
          /\ events[i].processed <= events[i].total
          /\ events[i].total = total

\* a run has rendered both of its rows: two events, the second at the total
C1_Witness ==
    /\ Len(events) = 2
    /\ events[1].total = events[2].total
    /\ events[2].processed = total
    /\ processed = total

\* renderable rows of the iterated list before position k, in file order
RenderedBefore(k) ==
    Cardinality({i \in 1..(k - 1) :
                    i <= Len(list) /\ Renderable(rev, list[i], templates)})

\* C2: the events of a run are emitted in the order the rows are processed;
\* the i-th event carries processed = i (the first one 1, each next one more),
\* so processed never decreases.
C2_EventsCountUp ==
    /\ \A i \in 1..Len(events) : events[i].processed = i
    /\ rev # "revA" => Len(events) = processed
    /\ (rev # "revA" /\ pc # "idle") => Len(events) = RenderedBefore(idx)

\* two rows have been rendered and two events emitted
C2_Witness ==
    /\ Len(events) = 2
    /\ events[2].processed = events[1].processed + 1
    /\ idx = 3

\* C3: a run that returns without error and rendered at least one row ends
\* its progress stream with processed = total, also when other rows of the
\* workbook were skipped.
C3_FinalProcessedIsTotal ==
    (Returned /\ processed >= 1 /\ events # <<>>)
        => LastEvent.processed = LastEvent.total

\* C4: total is the number of rows whose normalized type is recognized and
\* has a template on disk.
C4_TotalCountsRenderableRows ==
    (RunStarted /\ total # NoTotal) => total = RenderableCount

\* C5: one progress event per rendered row, emitted after the row's page is
\* closed and before the next row starts: the number of events always equals
\* the number of rendered rows.
C5_OneEventPerRenderedRow ==
    /\ Len(events) = processed
    /\ (Returned /\ processed >= 1) => events # <<>>

----------------------------------------------------------------------------
(* Result and archive *)

\* the archive written by the current run, if any
RunArchives == {f \in outputDir : IsZip(f) /\ f.run = runs}

\* a value a run returns after producing documents: an archive path, or the
\* constant "OK" of revA
IsSuccessValue(v) == endsWith(v, DOT_ZIP) \/ v = OK

\* C6: a run with at least one renderable row that completes without error
\* returns a path ending in ".zip" that names a file existing in the output
\* directory when the call returns.
C6_ReturnsExistingZip ==
    (Returned /\ processed >= 1) =>
        /\ endsWith(result, DOT_ZIP)
        /\ \E f \in outputDir : f.name = result

\* C7: the archive of a run has exactly one entry per rendered row: the
\* number of entries equals the final processed count.
C7_EntriesEqualProcessed ==
    Returned =>
        \A f \in RunArchives : f.name = result =>
            Cardinality(f.entries) = processed

\* C8: once a run has started, nothing an earlier run left in the output
\* directory is still there, and the archive of the run holds no document
\* of an earlier run.
C8_NoStaleArtifacts ==
    pc # "idle" =>
        /\ \A f \in outputDir : f.run = runs
        /\ \A f \in RunArchives : \A e \in f.entries : e.run = runs

\* C9: a run on a workbook with no rows emits no progress event, builds no
\* archive and returns a value that is not what a producing run returns.
C9_EmptyInputOutcome ==
    (Returned /\ rows = <<>>) =>
        /\ events = <<>>
        /\ RunArchives = {}
        /\ ~IsSuccessValue(result)

\* C10: when rows have a recognized type but no row produces a document, the
\* run reports a no-output result, distinct from a successful result.
C10_NoOutputOutcome ==
    (/\ Returned
     /\ processed = 0
     /\ \E i \in 1..Len(rows) : TypeOf(rev, rows[i]) # EMPTY)
        => ~IsSuccessValue(result)

----------------------------------------------------------------------------
(* Run lifecycle and resources *)

\* the step that ends a run of generateCards, by return or by exception
RunEnds == pc # "idle" /\ pc' = "idle"

\* C11: when a run ends, by a failure of a rendering step that propagates to
\* the caller or by a return, the browser engine is released as part of that
\* ending: no exit path of generateCards leaves the engine held.
C11_EngineReleasedOnExit ==
    [][RunEnds => (outcome' \in {"returned", "threw"} /\ browser' = "null")]_vars

\* C12: while the generator holds no browser, a call of generateCards fails
\* with the not-initialized error before any side effect: no file of the
\* output directory is deleted or written, no progress event is emitted, and
\* no run starts; a run starts only from a generator that holds a browser.
C12_NotInitializedHasNoEffect ==
    [][browser = "null" =>
          /\ outputDir' = outputDir
          /\ events' = events
          /\ runs' = runs
          /\ pc' = "idle"
          /\ outcome' # outcome => (outcome' = "threw" /\ result' = NoResult)
      ]_vars

\* generateCards was called after close() on a generator whose last run
\* had built its archive: the call threw and the archive is still there
C12_Witness ==
    /\ pc = "idle"
    /\ browser = "null"
    /\ outcome = "threw"
    /\ RunArchives # {}
    /\ events # <<>>

\* C13: when generateCards returns the path of the archive, the output stream
\* of the archive has signalled close (every byte is flushed); having awaited
\* the finalisation of the archive alone is not enough.
C13_ReturnsAfterStreamClose ==
    (Returned /\ endsWith(result, DOT_ZIP)) => stream = "closed"

\* documents of the output directory, as archive entries
DocumentEntries == {EntryOf(f) : f \in {g \in outputDir : IsPdf(g)}}

\* C14: the archive is assembled only after the last row of the run has been
\* processed: once assembly has started the row loop is over, no page is being
\* rendered, and the documents of the output directory are exactly the entries
\* of the archive (none was written after assembly started).
C14_ArchiveAfterLastRow ==
    stream # "none" =>
        /\ idx > Len(list)
        /\ pc \in {"zipping", "idle"}
        /\ \A f \in RunArchives : f.name = result => f.entries = DocumentEntries

\* the archive of a run of two rendered rows is being assembled
C14_Witness ==
    /\ pc = "zipping"
    /\ processed = 2
    /\ \E f \in RunArchives : Cardinality(f.entries) = 2

\* number of pages opened by the current run that are still open
PagesOfRun == Cardinality({i \in 1..Len(pages) : pages[i] = runs})

C16_EmitNeverAbortsLoop ==
    [][Len(events') > Len(events) => pc' = "loop"]_vars

RunDocuments == {f \in outputDir : IsPdf(f) /\ f.run = runs}

\* C18: a row whose type is unrecognized, or recognized but without a
\* template file, is skipped without failing the run: no document is written
\* for it and no event is emitted for it, and a run that returns has rendered
\* every renderable row of the workbook, whatever rows were skipped before it.
C18_SkippedRowsDoNotFailRun ==
    /\ \A f \in RunDocuments : Renderable(rev, list[f.row], templates)
    /\ Len(events) <= RenderableCount
    /\ Returned =>
          /\ processed = RenderableCount
          /\ rev # "revA" => Len(events) = RenderableCount

\* a run has returned after skipping a row of a recognized type that has no
\* template and rendering the row that follows it
C18_Witness ==
    /\ Returned
    /\ Len(rows) = 2
    /\ TypeOf(rev, rows[1]) = PROMOCAO
    /\ ~Renderable(rev, rows[1], templates)
    /\ Renderable(rev, rows[2], templates)
    /\ processed = 1
    /\ RunDocuments # {}

----------------------------------------------------------------------------
(* Type normalization *)

Folded == foldType(probe.tipo)

\* the short-code rule of the deployed revision matches
MatchesShortCode ==
    IF rev = "revB" THEN includes(Folded, BC) ELSE Folded = BC

\* C20: normalizeType classifies by substring containment in a fixed priority
\* order, first match wins: a string containing the promotion keyword yields
\* promocao even if it also contains the coupon or price-drop keyword; one
\* containing the coupon keyword and not the promotion keyword yields cupom
\* even if it also contains the price-drop keyword; a string that matches no
\* rule yields the empty string.
C20_PriorityOrder ==
    /\ includes(Folded, PROMO) => probe.out = PROMOCAO
    /\ (includes(Folded, CUPOM) /\ ~includes(Folded, PROMO)) => probe.out = CUPOM
    /\ (/\ ~includes(Folded, PROMO)
        /\ ~includes(Folded, CUPOM)
        /\ ~includes(Folded, QUEDA)
        /\ ~MatchesShortCode) => probe.out = EMPTY

\* a cell with the coupon keyword ahead of the promotion keyword, written
\* with a capital, was normalized to promocao
C20_Witness ==
    /\ probe.tipo = <<"C","u","p","o","m"," ","p","r","o","m","o">>
    /\ probe.out = PROMOCAO

\* no keyword rule ahead of the cashback and short-code rules matches
NoKeywordAhead ==
    /\ ~includes(Folded, PROMO)
    /\ ~includes(Folded, CUPOM)
    /\ ~includes(Folded, QUEDA)

\* C21: each of the five card types is a result of normalizeType; in
\* particular a type string that contains the cashback keyword and no keyword
\* of higher priority is classified as cashback, not as unrecognized.
C21_CashbackRecognized ==
    (includes(Folded, CASHBACK) /\ NoKeywordAhead) => probe.out = CASHBACK

\* C22: normalizeType yields bc only for a string that is exactly "bc" once
\* lower-cased, trimmed and stripped of diacritics: a string that merely
\* contains "bc" and contains no other keyword is unrecognized.
C22_ShortCodeIsExact ==
    (includes(Folded, BC) /\ Folded # BC /\ NoKeywordAhead) => probe.out = EMPTY

----------------------------------------------------------------------------
(* Placeholder substitution *)

\* the placeholders of the row have been substituted
Substituted == probe.VALOR # Unset

\* the logo cell of the row resolves to no file of the logo store
LogoUnresolved == trim(probe.row.logo) \notin LogoStore

\* C23: for every rendered row whose logo cannot be resolved (the cell is
\* empty or blank, or names a file that is not in the logo store), the value
\* substituted for the LOGO placeholder is the inline image of blank.png,
\* never the empty string.
C23_DefaultLogoEmbedded ==
    (Substituted /\ LogoUnresolved) =>
        probe.LOGO = imageToBase64(LogoStore, BLANK_PNG)

\* C24: for every rendered row of a type other than promotion the string
\* substituted for the VALOR placeholder contains no percent sign, whatever
\* the number and position of the percent signs of the cell; for a row of
\* type promotion the cell is substituted unchanged, percent signs included.
C24_PercentStripped ==
    Substituted =>
        IF probe.row.tipo = PROMOCAO
        THEN probe.VALOR = probe.row.valor
        ELSE \A i \in 1..Len(probe.VALOR) : probe.VALOR[i] # PERCENT

\* C25: a row whose seal cell is non-empty but is neither "nova" nor
\* "renovada" (compared without regard to case) resolves to no seal: the SELO
\* placeholder is substituted with the empty string and no error is raised.
C25_UnknownSealIsEmpty ==
    (/\ Substituted
     /\ probe.row.selo # EMPTY
     /\ toLowerCase(probe.row.selo) \notin {NOVA, RENOVADA}) =>
        probe.SELO = EMPTY

----------------------------------------------------------------------------
(* Documents and their names *)

\* position in the workbook of the k-th element of the iterated list
WorkbookPos(k) ==
    IF rev = "revB" THEN k
    ELSE CHOOSE i \in 1..Len(rows) :
            /\ Renderable(rev, rows[i], templates)
            /\ Cardinality({j \in 1..(i - 1) :
                               Renderable(rev, rows[j], templates)}) = k - 1

\* C26: the document of a rendered row is named {order}_{TYPE}_{CATEGORY}.pdf:
\* order is the row's own order value when it has one and otherwise the
\* 1-based position of the row in the workbook, skipped rows counted; a
\* category part is always present (the row's category, or a sentinel when it
\* has none), so the name has three parts.
C26_DocumentNaming ==
    \A f \in RunDocuments :
        LET row    == list[f.row]
            order  == IF trim(row.ordem) # EMPTY THEN trim(row.ordem)
                      ELSE NumToStr(WorkbookPos(f.row))
            prefix == toUpperCase(order \o USCORE \o TypeOf(rev, row) \o USCORE)
        IN /\ endsWith(f.name, DOT_PDF)
           /\ Len(f.name) > Len(prefix) + Len(DOT_PDF)
           /\ SubSeq(toUpperCase(f.name), 1, Len(prefix)) = prefix

----------------------------------------------------------------------------
(* Percentage, pages and name collisions *)

C28_NoPageLeftOpen == pc = "idle" => PagesOfRun = 0

\* the k-th element of the iterated list has had its document written
Exported(k) ==
    /\ Renderable(rev, list[k], templates)
    /\ \/ RenderedBefore(k) < processed
       \/ k = idx /\ pc = "exported"

\* C29: when two rendered rows of a run compute the same document name there
\* is no de-duplication: one file of that name exists in the output directory
\* and it holds the later row's content, while processed counts both rows and
\* an event is emitted for each.
C29_LaterRowReplacesEarlier ==
    /\ \A f, g \in outputDir : f.name = g.name => f = g
    /\ \A f \in RunDocuments : \A k \in 1..Len(list) :
          (Exported(k) /\ pdfName(rev, list[k], RenderedBefore(k)) = f.name)
              => f.row >= k
    /\ Cardinality(RunDocuments) <= processed + 1
    /\ (rev # "revA" /\ RunStarted) => Len(events) = processed

\* a run has returned after rendering two rows of one name: one document,
\* written for the second row, two rows counted and two events
C29_Witness ==
    /\ Returned
    /\ processed = 2
    /\ Len(events) = 2
    /\ Cardinality(RunDocuments) = 1
    /\ \A f \in RunDocuments : f.row = 2

----------------------------------------------------------------------------
(* Download route *)

\* the request has been answered
Responded == probe.response # NoResponse

\* the resolved path lies in the output directory or below it
InsideOutputDir(p) ==
    /\ Len(p) >= Len(outputDirPath)
    /\ SubSeq(p, 1, Len(outputDirPath)) = outputDirPath

\* C30: the route sends a file only if the resolved zipPath lies inside the
\* output directory: a zipPath that resolves outside it, a sibling directory
\* whose path begins with that of the output directory included, is answered
\* 403 and no content is sent; a missing or non-string zipPath is answered
\* 400; a path inside that does not exist is answered 404.
C30_DownloadConfined ==
    Responded =>
        LET q == probe.query
            r == probe.response
        IN IF q.kind # "string" THEN r.status = 400
           ELSE IF ~q.absolute /\ q.segs = <<>> THEN r.status = 400
           ELSE IF ~InsideOutputDir(resolve(q.absolute, q.segs))
                THEN r.status = 403 /\ r.sent = <<>>
           ELSE ~existsSync(resolve(q.absolute, q.segs)) => r.status = 404

====
